---- MODULE Spec2Model ----
(***************************************************************************)
(* Model of sample_lambda/python/lambda.py: the Alexa smart-home Lambda    *)
(* that answers legacy (v2) and modern (v3) directives.                    *)
(*                                                                         *)
(* Python dicts are functions with a set of string keys; a missing key is  *)
(* a key outside DOMAIN, and subscripting it is a KeyError.  A Python      *)
(* function is an operator returning [exc, ret]: exc is "" on a normal     *)
(* return and the exception's class name otherwise.  Requests are JSON     *)
(* objects whose members 'directive', 'header', 'endpoint' and 'scope',    *)
(* where present, are objects.  What the module does not fix itself (the   *)
(* uuid, the clock, the answer of the users table, the validator's         *)
(* verdict) is chosen freely at each call.                                 *)
(***************************************************************************)
EXTENDS Integers, Sequences, FiniteSets, TLC

VARIABLES
    APPLIANCE,    \* the module-level device catalog (list of v2 appliances)
    USERS_TABLE,  \* the items of the DynamoDB table 'users'
    pc,           \* where lambda_handler stands: idle, routed, responded, done
    request,      \* the request of the current invocation
    version,      \* lambda_handler's local `version`
    response,     \* lambda_handler's local `response`
    outcome,      \* how the invocation ended: [kind, value, exc]
    logged,       \* logger.error records of the current invocation
    trace,        \* the calls lambda_handler made, in order
    verdict,      \* what validate_message did: none, accept, reject
    scan,         \* what USERS_TABLE.scan did: none, fault, empty, found
    discovered,   \* per protocol version, the device lists discovery returned
    arg,          \* unit specifications: the argument a function is applied to
    result        \* unit specifications: what the function did, [exc, ret]

vars == <<APPLIANCE, USERS_TABLE, pc, request, version, response, outcome,
          logged, trace, verdict, scan, discovered, arg, result>>

-----------------------------------------------------------------------------
(* Bounds *)

MaxCatalog == 2   \* longest catalog checked

-----------------------------------------------------------------------------
(* Python values *)

None == [none |-> TRUE]

EmptyDict == [k \in {} |-> TRUE]

Has(d, k) == k \in DOMAIN d

\* d without key k
Without(d, k) == [x \in (DOMAIN d) \ {k} |-> d[x]]

\* d with key k set to v
With(d, k, v) == [x \in (DOMAIN d) \cup {k} |-> IF x = k THEN v ELSE d[x]]

Ok(v) == [exc |-> "", ret |-> v]

Raise(e) == [exc |-> e, ret |-> None]

-----------------------------------------------------------------------------
(* v3 utility functions *)

RECURSIVE Subscript(_, _)
\* d[path[1]][path[2]]...: the value, or the KeyError of the first missing key
Subscript(d, path) ==
    IF path = <<>> THEN Ok(d)
    ELSE IF Has(d, Head(path)) THEN Subscript(d[Head(path)], Tail(path))
    ELSE Raise("KeyError")

\* the detector with its two tries exchanged: the legacy header first
get_directive_version_legacy_first(req) ==
    LET first == Subscript(req, <<"header", "payloadVersion">>) IN
    IF first.exc = "" THEN first
    ELSE LET second == Subscript(req, <<"directive", "header", "payloadVersion">>) IN
         IF second.exc = "" THEN second
         ELSE Ok("-1")

\* get_directive_version: two nested try blocks, each with a bare except
\* that catches whatever the subscripting raised
get_directive_version(req) ==
    LET first == Subscript(req, <<"directive", "header", "payloadVersion">>) IN
    IF first.exc = "" THEN first
    ELSE LET second == Subscript(req, <<"header", "payloadVersion">>) IN
         IF second.exc = "" THEN second
         ELSE Ok("-1")

get_display_categories_from_v2_appliance(appliance) ==
    LET model_name == appliance["modelName"] IN
    IF model_name = "Smart Switch" THEN <<"SWITCH">>
    ELSE IF model_name = "Smart Light" THEN <<"LIGHT">>
    ELSE IF model_name = "Smart White Light" THEN <<"LIGHT">>
    ELSE IF model_name = "Smart Thermostat" THEN <<"THERMOSTAT">>
    ELSE IF model_name = "Smart Lock" THEN <<"SMARTLOCK">>
    ELSE IF model_name = "Smart Scene" THEN <<"SCENE_TRIGGER">>
    ELSE IF model_name = "Smart Activity" THEN <<"ACTIVITY_TRIGGER">>
    ELSE IF model_name = "Smart Camera" THEN <<"CAMERA">>
    ELSE <<"OTHER">>

camera_stream_capability ==
    [type |-> "AlexaInterface",
     interface |-> "Alexa.CameraStreamController",
     version |-> "3",
     cameraStreamConfigurations |->
        << [protocols |-> <<"RTSP">>,
            resolutions |-> << [width |-> 640, height |-> 480] >>,
            authorizationTypes |-> <<"NONE">>,
            videoCodecs |-> <<"H264">>,
            audioCodecs |-> <<"AAC">>] >>]

power_capability ==
    [type |-> "AlexaInterface",
     interface |-> "Alexa.PowerController",
     version |-> "3",
     properties |-> [supported |-> << [name |-> "powerState"] >>,
                     proactivelyReported |-> TRUE,
                     retrievable |-> TRUE]]

endpoint_health_capability ==
    [type |-> "AlexaInterface",
     interface |-> "Alexa.EndpointHealth",
     version |-> "3",
     properties |-> [supported |-> << [name |-> "connectivity"] >>,
                     proactivelyReported |-> TRUE,
                     retrievable |-> TRUE]]

alexa_interface_capability ==
    [type |-> "AlexaInterface", interface |-> "Alexa", version |-> "3"]

\* the two required capabilities appended in the other order
get_capabilities_base_first(appliance) ==
    LET model_name == appliance["modelName"]
        capabilities == IF model_name = "Smart Camera"
                        THEN <<camera_stream_capability>>
                        ELSE <<power_capability>>
    IN Append(Append(capabilities, alexa_interface_capability),
              endpoint_health_capability)

get_capabilities_from_v2_appliance(appliance) ==
    LET model_name == appliance["modelName"]
        capabilities == IF model_name = "Smart Camera"
                        THEN <<camera_stream_capability>>
                        ELSE <<power_capability>>
    IN Append(Append(capabilities, endpoint_health_capability),
              alexa_interface_capability)

get_endpoint_from_v2_appliance(appliance) ==
    [endpointId |-> appliance["applianceId"],
     manufacturerName |-> appliance["manufacturerName"],
     friendlyName |-> appliance["friendlyName"],
     description |-> appliance["friendlyDescription"],
     displayCategories |-> get_display_categories_from_v2_appliance(appliance),
     cookie |-> appliance["additionalApplianceDetails"],
     capabilities |-> get_capabilities_from_v2_appliance(appliance)]

\* time.strftime("%Y-%m-%dT%H:%M:%S.00Z", time.gmtime()): the instant, cut to
\* whole seconds, with the literal ".00Z" after it
get_utc_timestamp(now) == <<now.date, now.seconds, ".00Z">>

\* datetime.now().strftime('%Y-%m-%dT%H:%M:%S.%fZ'): the instant with its
\* microseconds, then "Z"
datetime_now_strftime(now) == <<now.date, now.seconds, now.micros, "Z">>

\* urlparse(url): the URL split into its parts; .hostname and .port are read
urlparse(url) == [scheme |-> url[1], hostname |-> url[2], port |-> url[3]]

-----------------------------------------------------------------------------
(* v2 handlers *)

handle_discovery(catalog, uuid) ==
    Ok([header |-> [namespace |-> "Alexa.ConnectedHome.Discovery",
                    name |-> "DiscoverAppliancesResponse",
                    payloadVersion |-> "2",
                    messageId |-> uuid],
        payload |-> [discoveredAppliances |-> catalog]])

\* request["header"] exists when this runs: lambda_handler subscripted it
\* while routing.  With a name other than the two handled ones `header` is
\* never bound and building the response is an UnboundLocalError.
handle_non_discovery(req, uuid) ==
    IF ~Has(req["header"], "name") THEN Raise("KeyError")
    ELSE LET request_name == req["header"]["name"] IN
         IF request_name = "TurnOnRequest"
         THEN Ok([header |-> [namespace |-> "Alexa.ConnectedHome.Control",
                              name |-> "TurnOnConfirmation",
                              payloadVersion |-> "2",
                              messageId |-> uuid],
                  payload |-> EmptyDict])
         ELSE IF request_name = "TurnOffRequest"
         THEN Ok([header |-> [namespace |-> "Alexa.ConnectedHome.Control",
                              name |-> "TurnOffConfirmation",
                              payloadVersion |-> "2",
                              messageId |-> uuid],
                  payload |-> EmptyDict])
         ELSE Raise("UnboundLocalError")

-----------------------------------------------------------------------------
(* v3 handlers *)

RECURSIVE MapEndpoints_reversed(_)
\* the loop inserting each endpoint at the front of the list
MapEndpoints_reversed(catalog) ==
    IF catalog = <<>> THEN <<>>
    ELSE MapEndpoints_reversed(Tail(catalog))
             \o <<get_endpoint_from_v2_appliance(Head(catalog))>>

RECURSIVE MapEndpoints(_)
\* the loop of handle_discovery_v3: one endpoint appended per appliance
MapEndpoints(catalog) ==
    IF catalog = <<>> THEN <<>>
    ELSE <<get_endpoint_from_v2_appliance(Head(catalog))>>
             \o MapEndpoints(Tail(catalog))

handle_discovery_v3(catalog, uuid) ==
    Ok([event |-> [header |-> [namespace |-> "Alexa.Discovery",
                               name |-> "Discover.Response",
                               payloadVersion |-> "3",
                               messageId |-> uuid],
                   payload |-> [endpoints |-> MapEndpoints(catalog)]]])

\* request['directive']['endpoint']['scope']['token'] can be subscripted
HasToken(req) ==
    /\ Has(req["directive"], "endpoint")
    /\ Has(req["directive"]["endpoint"], "scope")
    /\ Has(req["directive"]["endpoint"]["scope"], "token")

\* request["directive"]["endpoint"]["endpointId"] can be subscripted
HasEndpointId(req) ==
    /\ Has(req["directive"], "endpoint")
    /\ Has(req["directive"]["endpoint"], "endpointId")

HasCorrelationToken(req) == Has(req["directive"]["header"], "correlationToken")

\* the "Alexa" / "ReportState" branch
report_state(req, uuid, now) ==
    IF ~HasCorrelationToken(req) \/ ~HasToken(req) THEN Raise("KeyError")
    ELSE Ok(
      [context |-> [properties |-> <<
          [namespace |-> "Alexa.EndpointHealth",
           name |-> "connectivity",
           value |-> [value |-> "OK"],
           timeOfSample |-> datetime_now_strftime(now),
           uncertaintyInMilliseconds |-> 200] >>],
       event |-> [header |-> [namespace |-> "Alexa",
                              name |-> "StateReport",
                              payloadVersion |-> "3",
                              messageId |-> uuid,
                              correlationToken |->
                                  req["directive"]["header"]["correlationToken"]],
                  endpoint |-> [scope |-> [type |-> "BearerToken",
                                           token |-> req["directive"]["endpoint"]["scope"]["token"]],
                                endpointId |-> "endpoint-001"],
                  payload |-> EmptyDict]])

\* the power state with "TurnOn" and the rest exchanged
power_state_inverted(request_name) ==
    IF request_name = "TurnOn" THEN "OFF" ELSE "ON"

\* lines 238-241: every name but "TurnOn" is "OFF"
power_state(request_name) ==
    IF request_name = "TurnOn" THEN "ON" ELSE "OFF"

\* the "Alexa.PowerController" branch.
\* The dict display is evaluated in source order, so the first missing key
\* raises; whichever it is, the fault is a KeyError.
power_controller(req, uuid, now) ==
    LET request_name == req["directive"]["header"]["name"]
        value == power_state(request_name)
    IN
    IF ~HasCorrelationToken(req) \/ ~HasToken(req) \/ ~HasEndpointId(req)
    THEN Raise("KeyError")
    ELSE Ok(
      [context |-> [properties |-> <<
          [namespace |-> "Alexa.PowerController",
           name |-> "powerState",
           value |-> value,
           timeOfSample |-> get_utc_timestamp(now),
           uncertaintyInMilliseconds |-> 500] >>],
       event |-> [header |-> [namespace |-> "Alexa",
                              name |-> "Response",
                              payloadVersion |-> "3",
                              messageId |-> uuid,
                              correlationToken |->
                                  req["directive"]["header"]["correlationToken"]],
                  endpoint |-> [scope |-> [type |-> "BearerToken",
                                           token |-> req["directive"]["endpoint"]["scope"]["token"]],
                                endpointId |-> req["directive"]["endpoint"]["endpointId"]],
                  payload |-> EmptyDict]])

\* the "Alexa.Authorization" / "AcceptGrant" branch
accept_grant(uuid) ==
    Ok([event |-> [header |-> [namespace |-> "Alexa.Authorization",
                               name |-> "AcceptGrant.Response",
                               payloadVersion |-> "3",
                               messageId |-> uuid],
                   payload |-> EmptyDict]])

\* user['client_endpoint'] with its 'url', 'username' and 'password'
HasClientEndpoint(user) ==
    /\ Has(user, "client_endpoint")
    /\ {"url", "username", "password"} \subseteq DOMAIN user["client_endpoint"]

\* lines 299-316: the envelope returned when the scan found no user
invalid_authorization_credential(req, uuid) ==
    IF ~HasCorrelationToken(req) THEN Raise("KeyError")
    ELSE Ok(
      [event |-> [header |-> [namespace |-> "Alexa",
                              name |-> "ErrorResponse",
                              messageId |-> uuid,
                              correlationToken |->
                                  req["directive"]["header"]["correlationToken"],
                              payloadVersion |-> "3"],
                  endpoint |-> [endpointId |-> "endpoint-001"],
                  payload |-> [type |-> "INVALID_AUTHORIZATION_CREDENTIAL",
                               message |-> "Unable to reach endpoint 01 because the authorization was incorrect!"]]])

\* lines 317-372: the camera streams of the first user the scan found
camera_streams(req, uuid, now, items) ==
    IF items = <<>> THEN Raise("IndexError")
    ELSE
    LET user == items[1]
        bearer_token == req["directive"]["endpoint"]["scope"]["token"]
    IN
    IF ~HasClientEndpoint(user) \/ ~HasCorrelationToken(req) THEN Raise("KeyError")
    ELSE
    LET client_endpoint == urlparse(user["client_endpoint"]["url"])
        stream_uri == <<"rtsp://", client_endpoint.hostname, ":8554/live">>
    IN Ok(
      [context |-> [properties |-> <<
          [namespace |-> "Alexa.EndpointHealth",
           name |-> "connectivity",
           value |-> [value |-> "OK"],
           timeOfSample |-> datetime_now_strftime(now),
           uncertaintyInMilliseconds |-> 200] >>],
       event |-> [header |-> [namespace |-> "Alexa.CameraStreamController",
                              name |-> "Response",
                              payloadVersion |-> "3",
                              messageId |-> uuid,
                              correlationToken |->
                                  req["directive"]["header"]["correlationToken"]],
                  endpoint |-> [scope |-> [type |-> "BearerToken",
                                           token |-> bearer_token],
                                endpointId |-> "endpoint-001"],
                  payload |-> [cameraStreams |-> <<
                                  [uri |-> stream_uri,
                                   expirationTime |-> "2019-09-27T20:30:30.45Z",
                                   idleTimeoutSeconds |-> 300,
                                   protocol |-> "RTSP",
                                   resolution |-> [width |-> 640, height |-> 480],
                                   authorizationType |-> "NONE",
                                   videoCodec |-> "H264",
                                   audioCodec |-> "NONE"] >>,
                               imageUri |-> <<"http://",
                                              user["client_endpoint"]["username"], ":",
                                              user["client_endpoint"]["password"], "@",
                                              client_endpoint.hostname, ":",
                                              client_endpoint.port, "/frame">>]]])

\* the camera branch without its `if not user` guard: user[0] of an empty
\* list is an IndexError
camera_stream_controller_unguarded(req, uuid, now, lookup) ==
    IF ~HasToken(req) THEN Raise("KeyError")
    ELSE IF Has(lookup, "fault") THEN Raise("ClientError")
    ELSE camera_streams(req, uuid, now, lookup["Items"])

\* the "Alexa.CameraStreamController" branch.  The name is compared with
\* "InitializeCameraStreams" only to bind `value`, which nothing reads, so
\* every name takes the same path.  lookup is what USERS_TABLE.scan(...)
\* did: [fault |-> TRUE] when the call raised, else [Items |-> the list].
camera_stream_controller(req, uuid, now, lookup) ==
    IF ~HasToken(req) THEN Raise("KeyError")
    ELSE IF Has(lookup, "fault") THEN Raise("ClientError")
    ELSE IF lookup["Items"] = <<>>
    THEN invalid_authorization_credential(req, uuid)
    ELSE camera_streams(req, uuid, now, lookup["Items"])

\* the branch of handle_non_discovery_v3's if/elif chain the request takes:
\* the chain tests the namespace alone, the name only inside a branch
branch_of(request_namespace) ==
    IF request_namespace = "Alexa" THEN "Alexa"
    ELSE IF request_namespace = "Alexa.PowerController" THEN "Alexa.PowerController"
    ELSE IF request_namespace = "Alexa.Authorization" THEN "Alexa.Authorization"
    ELSE IF request_namespace = "Alexa.CameraStreamController"
         THEN "Alexa.CameraStreamController"
    ELSE "else"

\* handle_non_discovery_v3.  request["directive"]["header"]["name"] exists
\* when this runs: lambda_handler subscripted it while routing.  A branch
\* whose inner `if` fails falls off the end of the function: it returns None
\* and logs nothing; only the final else logs.
handle_non_discovery_v3(req, uuid, now, lookup) ==
    IF ~Has(req["directive"]["header"], "namespace") THEN Raise("KeyError")
    ELSE
    LET request_namespace == req["directive"]["header"]["namespace"]
        request_name == req["directive"]["header"]["name"]
        branch == branch_of(request_namespace)
    IN
    IF branch = "Alexa"
    THEN IF request_name = "ReportState" THEN report_state(req, uuid, now)
         ELSE Ok(None)
    ELSE IF branch = "Alexa.PowerController"
    THEN power_controller(req, uuid, now)
    ELSE IF branch = "Alexa.Authorization"
    THEN IF request_name = "AcceptGrant" THEN accept_grant(uuid) ELSE Ok(None)
    ELSE IF branch = "Alexa.CameraStreamController"
    THEN camera_stream_controller(req, uuid, now, lookup)
    ELSE Ok(None)

\* whether handle_non_discovery_v3 reaches USERS_TABLE.scan for req
CallsScan(req) ==
    /\ Has(req["directive"]["header"], "namespace")
    /\ req["directive"]["header"]["namespace"] = "Alexa.CameraStreamController"
    /\ HasToken(req)

\* whether handle_non_discovery_v3 reaches its final else, which logs
\* 'RESPONSE NOT IS NOT SENT'
LogsNotSent(req) ==
    /\ Has(req["directive"]["header"], "namespace")
    /\ branch_of(req["directive"]["header"]["namespace"]) = "else"

-----------------------------------------------------------------------------
(* The catalog, the users table and the inputs of an invocation *)

\* the record the module ships in APPLIANCE
SmartCamera ==
    [applianceId |-> "endpoint-001",
     manufacturerName |-> "Smart Doorman",
     modelName |-> "Smart Camera",
     version |-> "1",
     friendlyName |-> "Smart Camera",
     friendlyDescription |-> "Camera that tells you what's there using machine learning",
     isReachable |-> TRUE,
     actions |-> <<"retrieveCameraStreamUri">>,
     additionalApplianceDetails |-> EmptyDict]

\* a second v2 appliance of another model (the module's comment on
\* APPLIANCE: "this array includes a variety of virtual appliances"), so
\* that catalogs of several records and of both capability branches occur
SmartSwitch ==
    [applianceId |-> "endpoint-002",
     manufacturerName |-> "Smart Doorman",
     modelName |-> "Smart Switch",
     version |-> "1",
     friendlyName |-> "Switch",
     friendlyDescription |-> "Switch that can only be turned on/off",
     isReachable |-> TRUE,
     actions |-> <<"turnOn", "turnOff">>,
     additionalApplianceDetails |-> [extraDetail1 |-> "detail"]]

AppliancePool == {SmartCamera, SmartSwitch}

\* every catalog of at most MaxCatalog appliances, the shipped
\* <<SmartCamera>> among them
Catalogs == UNION {[1..n -> AppliancePool] : n \in 0..MaxCatalog}

\* items of the 'users' table: one complete, one that never registered a
\* client endpoint
UserPool ==
    {[stream_token |-> "tok-1",
      client_endpoint |-> [url |-> <<"http", "cam.example.org", "5000">>,
                           username |-> "user",
                           password |-> "secret"]],
     [stream_token |-> "tok-2"]}

\* every enumeration of the finite set S as a list
ListsOf(S) ==
    {l \in [1..Cardinality(S) -> S] : {l[i] : i \in DOMAIN l} = S}

\* USERS_TABLE.scan(FilterExpression=Attr('stream_token').eq(token)): the
\* call fails, or answers with the matching items in some order
ScanOutcomes(table, token) ==
    {[fault |-> TRUE]}
      \cup {[Items |-> l] : l \in ListsOf({u \in table : u["stream_token"] = token})}

UUIDs == {"uuid-A", "uuid-B"}

Times == {[date |-> "2018-01-01", seconds |-> "T10:00:00", micros |-> ".123456"]}

\* a dict with key k bound to one of S, or without k
Opt(k, S) == {EmptyDict} \cup {k :> v : v \in S}

Namespaces3 ==
    {"Alexa", "Alexa.PowerController", "Alexa.Authorization",
     "Alexa.CameraStreamController", "Alexa.Discovery",
     "Alexa.BrightnessController"}

Names3 ==
    {"Discover", "TurnOn", "TurnOff", "AcceptGrant",
     "InitializeCameraStreams", "ReportState", "SetBrightness"}

\* who sends the directive: the correlation token, the endpoint addressed
\* and the bearer token of the sender
Senders ==
    {[correlationToken |-> "abc123", endpointId |-> "endpoint-001", token |-> "tok-1"],
     [correlationToken |-> "xyz789", endpointId |-> "endpoint-002", token |-> "tok-2"]}

\* well-formed modern requests
ModernRequests ==
    {[directive |-> [header |-> [namespace |-> ns, name |-> n,
                                 payloadVersion |-> "3", messageId |-> "m-1",
                                 correlationToken |-> w.correlationToken],
                     endpoint |-> [endpointId |-> w.endpointId,
                                   scope |-> [type |-> "BearerToken",
                                              token |-> w.token]],
                     payload |-> EmptyDict]] :
        ns \in Namespaces3, n \in Names3, w \in Senders}

\* the modern requests the malformed ones are cut from: one per handled
\* (namespace, name), a discovery and an unhandled one
BasePairs ==
    {<<"Alexa", "ReportState">>, <<"Alexa.PowerController", "TurnOn">>,
     <<"Alexa.PowerController", "TurnOff">>, <<"Alexa.Authorization", "AcceptGrant">>,
     <<"Alexa.CameraStreamController", "InitializeCameraStreams">>,
     <<"Alexa.Discovery", "Discover">>, <<"Alexa.BrightnessController", "SetBrightness">>}

BaseRequests ==
    {r \in ModernRequests :
        /\ <<r.directive.header.namespace, r.directive.header.name>> \in BasePairs
        /\ r.directive.header.correlationToken = "abc123"
        /\ r.directive.endpoint.endpointId = "endpoint-001"}

\* r.directive with one member dropped or replaced
CutDirective(r) ==
    LET d == r.directive IN
    {Without(d, "header"), Without(d, "endpoint")}
      \cup {With(d, "header", Without(d.header, k)) :
               k \in {"namespace", "name", "payloadVersion", "correlationToken"}}
      \cup {With(d, "endpoint", Without(d.endpoint, k)) : k \in {"endpointId", "scope"}}
      \cup {With(d, "endpoint", With(d.endpoint, "scope", [type |-> "BearerToken"]))}

\* modern requests with one required member missing
MalformedRequests == {[directive |-> d] : d \in UNION {CutDirective(r) : r \in BaseRequests}}

LegacyHeaders ==
    {[namespace |-> "Alexa.ConnectedHome.Discovery", name |-> "DiscoverAppliancesRequest"],
     [namespace |-> "Alexa.ConnectedHome.Control", name |-> "TurnOnRequest"],
     [namespace |-> "Alexa.ConnectedHome.Control", name |-> "TurnOffRequest"],
     [namespace |-> "Alexa.ConnectedHome.Control", name |-> "SetTargetTemperatureRequest"],
     [namespace |-> "Alexa.ConnectedHome.Control"],
     [name |-> "TurnOnRequest"]}

\* legacy headers, with and without a payloadVersion
LegacyHeadersV ==
    {h @@ v @@ [messageId |-> "m-2"] :
        h \in LegacyHeaders, v \in Opt("payloadVersion", {"2", "3"})}

\* legacy-shaped requests {header, payload}, and the empty request
LegacyRequests ==
    {[header |-> h, payload |-> EmptyDict] : h \in LegacyHeadersV} \cup {EmptyDict}

\* requests that carry both a 'directive' member and a legacy header
HybridRequests ==
    {[directive |-> d, header |-> h, payload |-> EmptyDict] :
        d \in {EmptyDict,
               [header |-> [payloadVersion |-> "2"]],
               [header |-> [name |-> "TurnOn"]]},
        h \in LegacyHeadersV}

Requests == ModernRequests \cup MalformedRequests \cup LegacyRequests \cup HybridRequests

-----------------------------------------------------------------------------
(* lambda_handler *)

\* validate_message(request, response) of the module `validation`: returns
\* when the pair passes the v3 schema and raises its ValidationError when
\* it does not
validate_message(v) == IF v = "reject" THEN Raise("ValidationError") ELSE Ok(None)

\* except clauses that log and drop every exception
except_clauses_swallowing(exc) == [kind |-> "return", logs |-> TRUE]

\* the except clauses of lambda_handler: a KeyError is logged and the
\* function falls off its end (returns None); a ValueError is logged and
\* raised again; any other exception leaves the function untouched
except_clauses(exc) ==
    IF exc = "KeyError" THEN [kind |-> "return", logs |-> TRUE]
    ELSE IF exc = "ValueError" THEN [kind |-> "raise", logs |-> TRUE]
    ELSE [kind |-> "raise", logs |-> FALSE]

Returned(v) == [kind |-> "return", value |-> v, exc |-> ""]

Pending == [kind |-> "pending", value |-> None, exc |-> ""]

\* the invocation ends in the fault exc raised inside the try block
Fail(exc, log) ==
    LET h == except_clauses(exc) IN
    /\ pc' = "done"
    /\ outcome' = [kind |-> h.kind, value |-> None,
                   exc |-> IF h.kind = "raise" THEN exc ELSE ""]
    /\ logged' = IF h.logs THEN log \cup {exc} ELSE log

\* a handler came back with r = [exc, ret]: bind `response` or fail
Handled(r, log) ==
    IF r.exc = ""
    THEN /\ response' = r.ret
         /\ pc' = "responded"
         /\ logged' = log
         /\ UNCHANGED outcome
    ELSE /\ Fail(r.exc, log)
         /\ UNCHANGED response

\* list l becomes the latest of the lists h; the latest two are kept
Remember(h, l) ==
    IF Len(h) < 2 THEN Append(h, l) ELSE Append(Tail(h), l)

\* the lists returned by discovery once the invocation returns resp
Discovered(resp) ==
    IF trace # <<>> /\ trace[1] = "handle_discovery"
    THEN [discovered EXCEPT !.v2 = Remember(@, resp.payload.discoveredAppliances)]
    ELSE IF trace # <<>> /\ trace[1] = "handle_discovery_v3"
    THEN [discovered EXCEPT !.v3 = Remember(@, resp.event.payload.endpoints)]
    ELSE discovered

\* lines 76-82: a request without 'directive' returns at once; otherwise
\* the version is detected
Invoke(req) ==
    /\ pc = "idle"
    /\ request' = req
    /\ response' = None
    /\ trace' = <<>>
    /\ verdict' = "none"
    /\ scan' = "none"
    /\ IF ~Has(req, "directive")
       THEN /\ pc' = "done"
            /\ version' = "unbound"
            /\ outcome' = Returned(None)
            /\ logged' = {}
       ELSE LET v == get_directive_version(req) IN
            IF v.exc = ""
            THEN /\ pc' = "routed"
                 /\ version' = v.ret
                 /\ outcome' = Pending
                 /\ logged' = {}
            ELSE /\ version' = "unbound"
                 /\ Fail(v.exc, {})
    /\ UNCHANGED <<APPLIANCE, USERS_TABLE, discovered, arg, result>>

\* line 86 can subscript request["directive"]["header"]["name"]
CanRoute3(req) ==
    Has(req["directive"], "header") /\ Has(req["directive"]["header"], "name")

\* line 93 can subscript request["header"]["namespace"]
CanRoute2(req) == Has(req, "header") /\ Has(req["header"], "namespace")

\* lines 86 and 93: the subscript that picks the handler raises KeyError
RouteFault ==
    /\ pc = "routed"
    /\ IF version = "3" THEN ~CanRoute3(request) ELSE ~CanRoute2(request)
    /\ Fail("KeyError", logged)
    /\ UNCHANGED <<APPLIANCE, USERS_TABLE, request, version, response, trace,
                   verdict, scan, discovered, arg, result>>

\* lines 86-87 and handle_discovery_v3; the catalog is left as catalogAfter
DiscoveryV3Step(catalogAfter) ==
    /\ pc = "routed"
    /\ version = "3"
    /\ CanRoute3(request)
    /\ request["directive"]["header"]["name"] = "Discover"
    /\ \E uuid \in UUIDs : Handled(handle_discovery_v3(APPLIANCE, uuid), logged)
    /\ trace' = Append(trace, "handle_discovery_v3")
    /\ APPLIANCE' = catalogAfter
    /\ UNCHANGED <<USERS_TABLE, request, version, verdict, scan, discovered,
                   arg, result>>

\* a discovery whose loop consumes the catalog it walks
HandleDiscoveryV3_consuming == DiscoveryV3Step(<<>>)

HandleDiscoveryV3 == DiscoveryV3Step(APPLIANCE)

\* lines 88-89 and handle_non_discovery_v3.  The users table is scanned only
\* on the camera branch of a request with a bearer token; on every other
\* path the lookup argument is never read.
HandleNonDiscoveryV3 ==
    /\ pc = "routed"
    /\ version = "3"
    /\ CanRoute3(request)
    /\ request["directive"]["header"]["name"] # "Discover"
    /\ \E uuid \in UUIDs, now \in Times :
         IF CallsScan(request)
         THEN \E lookup \in ScanOutcomes(USERS_TABLE,
                               request["directive"]["endpoint"]["scope"]["token"]) :
                /\ Handled(handle_non_discovery_v3(request, uuid, now, lookup), logged)
                /\ scan' = IF Has(lookup, "fault") THEN "fault"
                           ELSE IF lookup["Items"] = <<>> THEN "empty" ELSE "found"
         ELSE /\ Handled(handle_non_discovery_v3(request, uuid, now, [fault |-> TRUE]),
                         IF LogsNotSent(request)
                         THEN logged \cup {"RESPONSE NOT IS NOT SENT"} ELSE logged)
              /\ UNCHANGED scan
    /\ trace' = Append(trace, "handle_non_discovery_v3")
    /\ UNCHANGED <<APPLIANCE, USERS_TABLE, request, version, verdict, discovered,
                   arg, result>>

\* lines 93-94 and handle_discovery
HandleDiscovery ==
    /\ pc = "routed"
    /\ version # "3"
    /\ CanRoute2(request)
    /\ request["header"]["namespace"] = "Alexa.ConnectedHome.Discovery"
    /\ \E uuid \in UUIDs : Handled(handle_discovery(APPLIANCE, uuid), logged)
    /\ trace' = Append(trace, "handle_discovery")
    /\ UNCHANGED <<APPLIANCE, USERS_TABLE, request, version, verdict, scan,
                   discovered, arg, result>>

\* lines 95-96 and handle_non_discovery
HandleNonDiscovery ==
    /\ pc = "routed"
    /\ version # "3"
    /\ CanRoute2(request)
    /\ request["header"]["namespace"] # "Alexa.ConnectedHome.Discovery"
    /\ \E uuid \in UUIDs : Handled(handle_non_discovery(request, uuid), logged)
    /\ trace' = Append(trace, "handle_non_discovery")
    /\ UNCHANGED <<APPLIANCE, USERS_TABLE, request, version, verdict, scan,
                   discovered, arg, result>>

\* lines 98-105 for version "3": the validator is called on the pair, and
\* the response is returned if it comes back
ValidateAndReturn ==
    /\ pc = "responded"
    /\ version = "3"
    /\ trace' = Append(trace, "validate_message")
    /\ \E v \in {"accept", "reject"} :
         /\ verdict' = v
         /\ LET r == validate_message(v) IN
            IF r.exc = ""
            THEN /\ pc' = "done"
                 /\ outcome' = Returned(response)
                 /\ discovered' = Discovered(response)
                 /\ UNCHANGED logged
            ELSE /\ Fail(r.exc, logged)
                 /\ UNCHANGED discovered
    /\ UNCHANGED <<APPLIANCE, USERS_TABLE, request, version, response, scan,
                   arg, result>>

\* lines 98-105 for any other version: the response is returned as it is
ReturnLegacy ==
    /\ pc = "responded"
    /\ version # "3"
    /\ pc' = "done"
    /\ outcome' = Returned(response)
    /\ discovered' = Discovered(response)
    /\ UNCHANGED <<APPLIANCE, USERS_TABLE, request, version, response, logged,
                   trace, verdict, scan, arg, result>>

\* the invocation is over: its outcome went to the caller and its locals
\* are gone; the process waits for the next request
Complete ==
    /\ pc = "done"
    /\ pc' = "idle"
    /\ request' = EmptyDict
    /\ version' = "unbound"
    /\ response' = None
    /\ outcome' = Pending
    /\ logged' = {}
    /\ trace' = <<>>
    /\ verdict' = "none"
    /\ scan' = "none"
    /\ UNCHANGED <<APPLIANCE, USERS_TABLE, discovered, arg, result>>

Init ==
    /\ APPLIANCE \in Catalogs
    /\ USERS_TABLE \in SUBSET UserPool
    /\ pc = "idle"
    /\ request = EmptyDict
    /\ version = "unbound"
    /\ response = None
    /\ outcome = Pending
    /\ logged = {}
    /\ trace = <<>>
    /\ verdict = "none"
    /\ scan = "none"
    /\ discovered = [v2 |-> <<>>, v3 |-> <<>>]
    /\ arg = None
    /\ result = None

Next ==
    \/ \E req \in Requests : Invoke(req)
    \/ RouteFault
    \/ HandleDiscoveryV3
    \/ HandleNonDiscoveryV3
    \/ HandleDiscovery
    \/ HandleNonDiscovery
    \/ ValidateAndReturn
    \/ ReturnLegacy
    \/ Complete

Spec == Init /\ [][Next]_vars

-----------------------------------------------------------------------------
(* Unit specifications: one function applied to one argument *)

\* the requests of section 8's version-detector examples next to the
\* requests of the main specification
DetectorInputs ==
    Requests \cup {[directive |-> [header |-> [payloadVersion |-> "3"]]],
                   [header |-> [payloadVersion |-> "2"]]}

ModelNames ==
    {"Smart Switch", "Smart Light", "Smart White Light", "Smart Thermostat",
     "Smart Lock", "Smart Scene", "Smart Activity", "Smart Camera",
     "Smart Toaster", ""}

\* device records of every model name
DeviceRecords ==
    {[applianceId |-> id,
      manufacturerName |-> "Smart Doorman",
      modelName |-> m,
      version |-> "1",
      friendlyName |-> "Device",
      friendlyDescription |-> "A device",
      isReachable |-> TRUE,
      actions |-> <<"turnOn", "turnOff">>,
      additionalApplianceDetails |-> d] :
        id \in {"endpoint-001", "endpoint-002", "endpoint-003"},
        m \in ModelNames,
        d \in {EmptyDict, [extraDetail1 |-> "detail"]}}

\* the part of Init the unit specifications share: the shipped catalog, an
\* empty users table, no invocation
InitAtRest ==
    /\ APPLIANCE = <<SmartCamera>>
    /\ USERS_TABLE = {}
    /\ request = EmptyDict
    /\ version = "unbound"
    /\ response = None
    /\ outcome = Pending
    /\ logged = {}
    /\ trace = <<>>
    /\ verdict = "none"
    /\ scan = "none"
    /\ discovered = [v2 |-> <<>>, v3 |-> <<>>]
    /\ result = None

AtRest == <<APPLIANCE, USERS_TABLE, request, version, response, outcome, logged,
            trace, verdict, scan, discovered>>

InitDetector == InitAtRest /\ pc = "detect" /\ arg \in DetectorInputs

\* get_directive_version(arg) is called
Detect ==
    /\ pc = "detect"
    /\ result' = get_directive_version(arg)
    /\ pc' = "detected"
    /\ UNCHANGED <<AtRest, arg>>

SpecDetector == InitDetector /\ [][Detect]_vars

InitMapper == InitAtRest /\ pc = "map" /\ arg \in DeviceRecords

\* get_endpoint_from_v2_appliance(arg) is called
MapAppliance ==
    /\ pc = "map"
    /\ result' = Ok(get_endpoint_from_v2_appliance(arg))
    /\ pc' = "mapped"
    /\ UNCHANGED <<AtRest, arg>>

SpecMapper == InitMapper /\ [][MapAppliance]_vars

-----------------------------------------------------------------------------
(* Properties *)

\* the request is the legacy shape {header: {namespace, name, payloadVersion,
\* messageId}, payload} and asks for discovery
LegacyShapedDiscovery(req) ==
    /\ ~Has(req, "directive")
    /\ Has(req, "header")
    /\ Has(req, "payload")
    /\ {"namespace", "name", "payloadVersion", "messageId"} \subseteq DOMAIN req["header"]
    /\ req["header"]["namespace"] = "Alexa.ConnectedHome.Discovery"

\* C1: lambda_handler answers every legacy-shaped discovery request with an
\* envelope whose payload.discoveredAppliances is the catalog APPLIANCE as
\* it stands, in catalog order.
C1_LegacyDiscoveryVerbatim ==
    (pc = "done" /\ LegacyShapedDiscovery(request))
       => /\ outcome.kind = "return"
          /\ outcome.value # None
          /\ Has(outcome.value, "payload")
          /\ outcome.value["payload"]["discoveredAppliances"] = APPLIANCE

V3Handlers == {"handle_discovery_v3", "handle_non_discovery_v3"}

\* C2: the validator is called only for version "3", once, after the
\* handler has produced the response and before the return; a version "3"
\* response is returned only past an accepting validator; and when the
\* validator rejects the pair, lambda_handler raises the validator's error
\* and returns nothing, normally or otherwise.
C2_ValidationPropagates ==
    /\ ("validate_message" \in {trace[i] : i \in DOMAIN trace}) <=> (verdict # "none")
    /\ verdict # "none"
          => /\ version = "3"
             /\ Len(trace) = 2
             /\ trace[1] \in V3Handlers
             /\ trace[2] = "validate_message"
             /\ pc = "done"
    /\ (pc = "done" /\ version = "3" /\ outcome.kind = "return" /\ outcome.value # None)
          => verdict = "accept"
    /\ verdict = "reject"
          => /\ outcome.kind = "raise"
             /\ outcome.exc = "ValidationError"
             /\ outcome.value = None

\* C2 witness: a version "3" response was assembled, the validator rejected
\* it and the invocation is over.
C2_Witness ==
    /\ pc = "done"
    /\ verdict = "reject"
    /\ response # None
    /\ outcome.kind = "raise"

\* the request is a modern CameraStreamController InitializeCameraStreams
\* directive with a bearer token and a correlation token
CameraInit(req) ==
    /\ Has(req, "directive")
    /\ CanRoute3(req)
    /\ Has(req["directive"]["header"], "namespace")
    /\ req["directive"]["header"]["namespace"] = "Alexa.CameraStreamController"
    /\ req["directive"]["header"]["name"] = "InitializeCameraStreams"
    /\ HasToken(req)
    /\ HasCorrelationToken(req)

\* no item of the users table carries the request's bearer token
NoAssociation(req) ==
    \A u \in USERS_TABLE :
        u["stream_token"] # req["directive"]["endpoint"]["scope"]["token"]

\* C3: a modern InitializeCameraStreams directive whose bearer token has no
\* item in the users table, once the lookup has answered, gets an
\* ErrorResponse envelope of type INVALID_AUTHORIZATION_CREDENTIAL that
\* echoes the correlation token and carries no camera streams; the
\* invocation returns that envelope unless the validator rejects it.
C3_UnknownTokenErrorResponse ==
    (/\ pc \in {"responded", "done"}
     /\ version = "3"
     /\ CameraInit(request)
     /\ NoAssociation(request)
     /\ scan # "fault")
       => /\ scan = "empty"
          /\ response # None
          /\ response["event"]["header"]["name"] = "ErrorResponse"
          /\ response["event"]["header"]["namespace"] = "Alexa"
          /\ response["event"]["payload"]["type"] = "INVALID_AUTHORIZATION_CREDENTIAL"
          /\ response["event"]["header"]["correlationToken"]
                = request["directive"]["header"]["correlationToken"]
          /\ ~Has(response["event"]["payload"], "cameraStreams")
          /\ pc = "done" =>
                \/ outcome = Returned(response)
                \/ verdict = "reject" /\ outcome.exc = "ValidationError"

\* C3 witness: such a directive was answered with the error envelope and
\* the envelope was returned.
C3_Witness ==
    /\ pc = "done"
    /\ CameraInit(request)
    /\ NoAssociation(request)
    /\ scan = "empty"
    /\ outcome.kind = "return"
    /\ outcome.value # None
    /\ outcome.value["event"]["payload"]["type"] = "INVALID_AUTHORIZATION_CREDENTIAL"

\* the (namespace, name) pairs section 4.3 lists as handled
HandledPairs ==
    {<<"Alexa.PowerController", "TurnOn">>, <<"Alexa.PowerController", "TurnOff">>,
     <<"Alexa.Authorization", "AcceptGrant">>,
     <<"Alexa.CameraStreamController", "InitializeCameraStreams">>,
     <<"Alexa", "ReportState">>}

\* C4: a version "3" directive other than "Discover" whose (namespace, name)
\* is not one of the handled pairs runs no handler: the dispatcher returns
\* nothing.
C4_OnlyListedPairsAnswered ==
    (/\ pc = "responded"
     /\ trace = <<"handle_non_discovery_v3">>
     /\ <<request["directive"]["header"]["namespace"],
          request["directive"]["header"]["name"]>> \notin HandledPairs)
       => response = None

\* the request is a modern PowerController directive with a correlation
\* token, an endpoint id and a bearer token
PowerDirective(req) ==
    /\ Has(req, "directive")
    /\ CanRoute3(req)
    /\ Has(req["directive"]["header"], "namespace")
    /\ req["directive"]["header"]["namespace"] = "Alexa.PowerController"
    /\ req["directive"]["header"]["name"] # "Discover"
    /\ HasCorrelationToken(req)
    /\ HasEndpointId(req)
    /\ HasToken(req)

\* C5: the response to a modern PowerController directive echoes the
\* correlation token and the endpoint id, and its context is one property
\* report: Alexa.PowerController powerState, uncertainty 500, "ON" for
\* "TurnOn" and "OFF" for "TurnOff".
C5_PowerControllerResponse ==
    (/\ pc \in {"responded", "done"}
     /\ version = "3"
     /\ PowerDirective(request))
       => /\ response # None
          /\ response["event"]["header"]["correlationToken"]
                = request["directive"]["header"]["correlationToken"]
          /\ response["event"]["endpoint"]["endpointId"]
                = request["directive"]["endpoint"]["endpointId"]
          /\ Len(response["context"]["properties"]) = 1
          /\ LET report == response["context"]["properties"][1]
                 name == request["directive"]["header"]["name"]
             IN /\ report["namespace"] = "Alexa.PowerController"
                /\ report["name"] = "powerState"
                /\ report["uncertaintyInMilliseconds"] = 500
                /\ name = "TurnOn" => report["value"] = "ON"
                /\ name = "TurnOff" => report["value"] = "OFF"
          /\ (pc = "done" /\ verdict = "accept") => outcome = Returned(response)

\* C5 witness: a TurnOn directive for the second endpoint was answered "ON"
\* and the answer was returned.
C5_WitnessOn ==
    /\ pc = "done"
    /\ PowerDirective(request)
    /\ request["directive"]["header"]["name"] = "TurnOn"
    /\ request["directive"]["endpoint"]["endpointId"] = "endpoint-002"
    /\ outcome.kind = "return"
    /\ outcome.value # None
    /\ outcome.value["context"]["properties"][1]["value"] = "ON"

\* the request is a modern "Discover" directive
DiscoverDirective(req) ==
    /\ Has(req, "directive")
    /\ CanRoute3(req)
    /\ req["directive"]["header"]["name"] = "Discover"

\* C6: the response to a modern "Discover" directive is a Discover.Response
\* event with one endpoint per catalog record, in catalog order, the i-th
\* being the mapper's image of the i-th record and carrying its applianceId
\* as endpointId.
C6_DiscoveryV3Endpoints ==
    (/\ pc \in {"responded", "done"}
     /\ version = "3"
     /\ DiscoverDirective(request))
       => /\ response # None
          /\ response["event"]["header"]["namespace"] = "Alexa.Discovery"
          /\ response["event"]["header"]["name"] = "Discover.Response"
          /\ LET endpoints == response["event"]["payload"]["endpoints"] IN
             /\ Len(endpoints) = Len(APPLIANCE)
             /\ \A i \in DOMAIN APPLIANCE :
                  /\ endpoints[i] = get_endpoint_from_v2_appliance(APPLIANCE[i])
                  /\ endpoints[i]["endpointId"] = APPLIANCE[i]["applianceId"]
          /\ (pc = "done" /\ verdict = "accept") => outcome = Returned(response)

\* C6 witness: a catalog of two different records was discovered and the
\* response returned.
C6_Witness ==
    /\ pc = "done"
    /\ DiscoverDirective(request)
    /\ version = "3"
    /\ Len(APPLIANCE) = 2
    /\ APPLIANCE[1] # APPLIANCE[2]
    /\ outcome.kind = "return"
    /\ outcome.value # None
    /\ Len(outcome.value["event"]["payload"]["endpoints"]) = 2

\* how many descriptors of the list caps declare interface name
CountInterface(caps, name) ==
    Cardinality({i \in DOMAIN caps : caps[i]["interface"] = name})

\* C7: for a device record of any model name the endpoint's capability list
\* has at least two descriptors, exactly one Alexa.EndpointHealth and
\* exactly one base "Alexa" descriptor, ends with the health descriptor
\* followed by the base descriptor, and starts with the model's own
\* descriptor: Alexa.CameraStreamController for "Smart Camera", otherwise
\* Alexa.PowerController.
C7_CapabilityList ==
    pc = "mapped"
       => /\ result.exc = ""
          /\ LET caps == result.ret["capabilities"]
                 n == Len(caps)
             IN /\ n >= 2
                /\ caps = get_capabilities_from_v2_appliance(arg)
                /\ CountInterface(caps, "Alexa.EndpointHealth") = 1
                /\ CountInterface(caps, "Alexa") = 1
                /\ caps[n - 1]["interface"] = "Alexa.EndpointHealth"
                /\ caps[n]["interface"] = "Alexa"
                /\ 1 < n - 1
                /\ caps[1]["interface"] =
                      IF arg["modelName"] = "Smart Camera"
                      THEN "Alexa.CameraStreamController"
                      ELSE "Alexa.PowerController"

\* C7 witness: a record that is no camera was mapped.
C7_Witness ==
    /\ pc = "mapped"
    /\ arg["modelName"] = "Smart Toaster"
    /\ Len(result.ret["capabilities"]) = 3

\* C8: get_directive_version never raises; it returns
\* directive.header.payloadVersion when present, else header.payloadVersion
\* when present, else "-1"; the three requests of section 8 give "3", a
\* value other than "3", and "-1".
C8_VersionDetector ==
    pc = "detected"
       => /\ result.exc = ""
          /\ LET nested == /\ Has(arg, "directive")
                           /\ Has(arg["directive"], "header")
                           /\ Has(arg["directive"]["header"], "payloadVersion")
                 flat == /\ Has(arg, "header")
                         /\ Has(arg["header"], "payloadVersion")
             IN /\ nested => result.ret = arg["directive"]["header"]["payloadVersion"]
                /\ (~nested /\ flat) => result.ret = arg["header"]["payloadVersion"]
                /\ (~nested /\ ~flat) => result.ret = "-1"
          /\ arg = [directive |-> [header |-> [payloadVersion |-> "3"]]]
                => result.ret = "3"
          /\ arg = [header |-> [payloadVersion |-> "2"]] => result.ret # "3"
          /\ arg = EmptyDict => result.ret = "-1"

\* C8 witness: a request with both a directive header and a legacy header,
\* of different versions, went through the detector.
C8_Witness ==
    /\ pc = "detected"
    /\ Has(arg, "directive")
    /\ Has(arg["directive"], "header")
    /\ Has(arg["directive"]["header"], "payloadVersion")
    /\ Has(arg, "header")
    /\ Has(arg["header"], "payloadVersion")
    /\ arg["header"]["payloadVersion"] # arg["directive"]["header"]["payloadVersion"]
    /\ result.ret = "2"

\* C9: after a field-access fault (a KeyError) inside lambda_handler the
\* fault is recorded and the invocation fails: it does not return.
C9_KeyErrorSurfaces ==
    (pc = "done" /\ "KeyError" \in logged) => outcome.kind = "raise"

\* the lists of h are all the same list
AllSame(h) == \A i, j \in DOMAIN h : h[i] = h[j]

\* C10: no step of any invocation changes the catalog, and the discovery
\* invocations of one protocol version all return the same list.
C10_CatalogUnchanged ==
    /\ [][APPLIANCE' = APPLIANCE]_vars
    /\ [](AllSame(discovered.v2) /\ AllSame(discovered.v3))

\* C10 witness: discovery has returned twice for each protocol version, with
\* other invocations in between, over a catalog that is not empty.
C10_Witness ==
    /\ Len(discovered.v2) = 2
    /\ Len(discovered.v3) = 2
    /\ APPLIANCE # <<>>
    /\ pc = "done"
    /\ trace = <<"handle_non_discovery_v3", "validate_message">>

====
